---- MODULE Spec2Model ----
(***************************************************************************)
(* Model of miner.py: level-wise frequent itemset mining (singles, pairs,  *)
(* triples) and association rule derivation and ranking.                   *)
(*                                                                         *)
(* Strings are sequences of character codes (ASCII), so that joining,      *)
(* splitting and string comparison are computed as Python computes them.   *)
(* A dict is a sequence of <<key, value>> entries in insertion order, the  *)
(* order Python iterates it in.                                            *)
(***************************************************************************)
EXTENDS Integers, Sequences, FiniteSets, TLC

VARIABLES
    FREQ_THRES,    \* the minimum support count; the source fixes it at 100,
                   \* the model lets it be any value in 1..MaxThres
    browsing,      \* the lines of the browsing file, as readlines() returns them
    lines,         \* the loaded transactions
    singles,       \* dict item -> count
    pairs,         \* dict "x y" -> count
    triples,       \* dict "x y z" -> count
    pair_rules,    \* sorted list of Rule
    triple_rules,  \* sorted list of Rule
    log,           \* the strings written to the logging file, in order
    pc,            \* position of the module-level script
    candidates,    \* argument of a direct call of prune / make_candidates
    result,        \* value that call returned
    called         \* which function was called ("none" before the call)

vars == <<FREQ_THRES, browsing, lines, singles, pairs, triples, pair_rules,
          triple_rules, log, pc, candidates, result, called>>

(***************************************************************************)
(* Bounds of the model.                                                    *)
(***************************************************************************)
NumItems == 3
MaxLineLen == 3
MaxTrans == 2
MaxThres == 2
MaxCount == 2

(***************************************************************************)
(* Characters and strings.                                                 *)
(***************************************************************************)
\* the characters str.split() and str.strip() treat as whitespace
Whitespace == {9, 10, 11, 12, 13, 28, 29, 30, 31, 32}

SP == <<32>>        \* " "
NL == <<10>>        \* "\n"
CommaSP == <<44, 32>>   \* ", "

\* item labels "a", "ab", "b", "c", "d"
ItemNames == << <<97>>, <<97, 98>>, <<98>>, <<99>>, <<100>> >>

Items == {ItemNames[i] : i \in 1..NumItems}

Range(s) == {s[i] : i \in DOMAIN s}

\* Python's str < str: lexicographic by code point, a proper prefix is smaller
RECURSIVE str_lt(_, _)
str_lt(s, t) ==
    IF t = <<>> THEN FALSE
    ELSE IF s = <<>> THEN TRUE
    ELSE IF Head(s) < Head(t) THEN TRUE
    ELSE IF Head(s) > Head(t) THEN FALSE
    ELSE str_lt(Tail(s), Tail(t))

\* sep.join(parts)
RECURSIVE join(_, _)
join(sep, parts) ==
    IF parts = <<>> THEN <<>>
    ELSE IF Len(parts) = 1 THEN parts[1]
    ELSE parts[1] \o sep \o join(sep, Tail(parts))

\* str.strip(): drop leading and trailing whitespace
RECURSIVE lstrip(_)
lstrip(s) ==
    IF s # <<>> /\ Head(s) \in Whitespace THEN lstrip(Tail(s)) ELSE s

RECURSIVE rstrip(_)
rstrip(s) ==
    IF s # <<>> /\ s[Len(s)] \in Whitespace
    THEN rstrip(SubSeq(s, 1, Len(s) - 1)) ELSE s

strip(s) == rstrip(lstrip(s))

\* str.split(): the maximal runs of non-whitespace characters
RECURSIVE split_from(_, _, _)
split_from(s, cur, acc) ==
    IF s = <<>> THEN (IF cur = <<>> THEN acc ELSE Append(acc, cur))
    ELSE IF Head(s) \in Whitespace
         THEN split_from(Tail(s), <<>>, IF cur = <<>> THEN acc ELSE Append(acc, cur))
         ELSE split_from(Tail(s), Append(cur, Head(s)), acc)

split(s) == split_from(s, <<>>, <<>>)

\* str(n) for a natural number
RECURSIVE str_int(_)
str_int(n) ==
    IF n < 10 THEN <<48 + n>> ELSE str_int(n \div 10) \o <<48 + (n % 10)>>

\* combinations without the subsequences that skip the first element
RECURSIVE combinations_head_only(_, _)
combinations_head_only(s, r) ==
    IF r = 0 THEN << <<>> >>
    ELSE IF Len(s) < r THEN <<>>
    ELSE LET with == combinations_head_only(Tail(s), r - 1)
         IN  [i \in 1..Len(with) |-> <<Head(s)>> \o with[i]]

\* itertools.combinations(s, r): the r-length subsequences, in lexicographic
\* order of their positions
RECURSIVE combinations(_, _)
combinations(s, r) ==
    IF r = 0 THEN << <<>> >>
    ELSE IF Len(s) < r THEN <<>>
    ELSE LET with == combinations(Tail(s), r - 1)
         IN  [i \in 1..Len(with) |-> <<Head(s)>> \o with[i]]
             \o combinations(Tail(s), r)

RECURSIVE concat(_)
concat(ss) == IF ss = <<>> THEN <<>> ELSE Head(ss) \o concat(Tail(ss))

(***************************************************************************)
(* dict operations.                                                        *)
(***************************************************************************)
dict_keys(d) == [i \in 1..Len(d) |-> d[i][1]]

KeySet(d) == {d[i][1] : i \in 1..Len(d)}

dict_has(d, k) == \E i \in 1..Len(d) : d[i][1] = k

dict_get(d, k) == d[CHOOSE i \in 1..Len(d) : d[i][1] = k][2]

\* d[k] = v: an existing key keeps its position
dict_set(d, k, v) ==
    IF dict_has(d, k)
    THEN [i \in 1..Len(d) |-> IF d[i][1] = k THEN <<k, v>> ELSE d[i]]
    ELSE Append(d, <<k, v>>)

(***************************************************************************)
(* class Rule                                                              *)
(***************************************************************************)
Rule(left, right, all_freq, left_freq) ==
    [left |-> left, right |-> right, all_freq |-> all_freq, left_freq |-> left_freq]

\* Rule.confidence is the quotient all_freq/left_freq.  The model keeps it as
\* the pair <<all_freq, left_freq>> and compares two quotients exactly by
\* cross-multiplication (left_freq > 0 wherever a Rule exists, see prune).
Rule_confidence(self) == <<self.all_freq, self.left_freq>>

\* sign of self.confidence() - other.confidence()
conf_difference(self, other) ==
    Rule_confidence(self)[1] * Rule_confidence(other)[2]
        - Rule_confidence(other)[1] * Rule_confidence(self)[2]

\* _cmp with the string comparison of the tie-break the other way round
Rule_cmp_tie_swapped(self, other) ==
    IF conf_difference(self, other) < 0 THEN -1
    ELSE IF conf_difference(self, other) > 0 THEN 1
    ELSE LET self_string == join(SP, self.left)
             other_string == join(SP, other.left)
         IN  IF str_lt(self_string, other_string) THEN -1
             ELSE IF str_lt(other_string, self_string) THEN 1
             ELSE 0

Rule_cmp(self, other) ==
    IF conf_difference(self, other) < 0 THEN -1
    ELSE IF conf_difference(self, other) > 0 THEN 1
    ELSE LET self_string == join(SP, self.left)
             other_string == join(SP, other.left)
         IN  IF str_lt(other_string, self_string) THEN -1
             ELSE IF str_lt(self_string, other_string) THEN 1
             ELSE 0

Rule_lt(self, other) == Rule_cmp(self, other) < 0

\* x < y as sorted() evaluates it: str.__lt__ for strings, Rule.__lt__ for Rules
elem_lt(cls, x, y) == IF cls = "Rule" THEN Rule_lt(x, y) ELSE str_lt(x, y)

\* sorted(list) for a list of cls: the stable ascending order; with reverse the
\* stable descending order (list.sort keeps equal elements in their original
\* order in both directions).  Only < is used, as list.sort only calls __lt__.
sorted(list, cls, reverse) ==
    LET n == Len(list)
        before(i, j) ==   \* list[j] is placed before list[i]
            \/ (IF reverse THEN elem_lt(cls, list[i], list[j])
                           ELSE elem_lt(cls, list[j], list[i]))
            \/ /\ j < i
               /\ ~elem_lt(cls, list[i], list[j])
               /\ ~elem_lt(cls, list[j], list[i])
        rank(i) == 1 + Cardinality({j \in 1..n : j # i /\ before(i, j)})
    IN  [p \in 1..n |-> list[CHOOSE i \in 1..n : rank(i) = p]]

RECURSIVE gcd(_, _)
gcd(a, b) == IF b = 0 THEN a ELSE gcd(b, a % b)

\* str(float): the float's digits are not modelled; the quotient is written
\* as the reduced fraction "n/d", which like the float's text is determined
\* by the value of the quotient alone.
str_float(q) ==
    LET g == gcd(q[1], q[2])
    IN  str_int(q[1] \div g) \o <<47>> \o str_int(q[2] \div g)

\* __str__ joining the items with a space
Rule_str_space(self) ==
    <<123>> \o join(SP, self.left)
    \o <<125, 32, 45, 62, 32, 123>>
    \o join(SP, self.right)
    \o <<125, 32, 45, 32, 102, 114, 101, 113, 117, 101, 110, 99, 121, 58, 32>>
    \o str_int(self.all_freq)
    \o <<44, 32, 99, 111, 110, 102, 105, 100, 101, 110, 99, 101, 32, 61, 32>>
    \o str_float(Rule_confidence(self))

Rule_str(self) ==
    <<123>> \o join(CommaSP, self.left)
    \o <<125, 32, 45, 62, 32, 123>>                                \* "} -> {"
    \o join(CommaSP, self.right)
    \o <<125, 32, 45, 32, 102, 114, 101, 113, 117, 101, 110, 99, 121, 58, 32>>
                                                                    \* "} - frequency: "
    \o str_int(self.all_freq)
    \o <<44, 32, 99, 111, 110, 102, 105, 100, 101, 110, 99, 101, 32, 61, 32>>
                                                                    \* ", confidence = "
    \o str_float(Rule_confidence(self))

(***************************************************************************)
(* prune, make_candidates, make_rules                                      *)
(***************************************************************************)
\* prune keeping only the counts strictly above the threshold
prune_strict(cands) == SelectSeq(cands, LAMBDA e : e[2] > FREQ_THRES)

prune(cands) == SelectSeq(cands, LAMBDA e : e[2] >= FREQ_THRES)

\* the while loop of make_candidates; i counts from 0 as in the source
RECURSIVE common_prefix(_, _, _, _)
common_prefix(outer_items, inner_items, prefix, i) ==
    IF /\ i < prefix
       /\ i < Len(outer_items)
       /\ i < Len(inner_items)
       /\ outer_items[i + 1] = inner_items[i + 1]
    THEN common_prefix(outer_items, inner_items, prefix, i + 1)
    ELSE i

\* the first index of the inner loop, range(outer, len(freq_list))
inner_start(outer) == outer

\* the inner loop, from position inner on
RECURSIVE inner_loop(_, _, _, _)
inner_loop(cands, freq_list, outer, inner) ==
    IF inner > Len(freq_list) THEN cands
    ELSE LET outer_items == split(freq_list[outer])
             prefix == Len(outer_items) - 1
             inner_items == split(freq_list[inner])
             i == common_prefix(outer_items, inner_items, prefix, 0)
         IN  inner_loop(
                 IF i = prefix
                 THEN dict_set(cands,
                               join(SP, Append(outer_items, inner_items[prefix + 1])), 0)
                 ELSE cands,
                 freq_list, outer, inner + 1)

RECURSIVE outer_loop(_, _, _)
outer_loop(cands, freq_list, outer) ==
    IF outer > Len(freq_list) THEN cands
    ELSE outer_loop(inner_loop(cands, freq_list, outer, inner_start(outer)),
                    freq_list, outer + 1)

\* the keys in dict order, not sorted
freq_list_unsorted(prev_frequents) == dict_keys(prev_frequents)

\* the order make_candidates puts the keys in
freq_list_of(prev_frequents) == sorted(dict_keys(prev_frequents), "str", FALSE)

make_candidates(prev_frequents) ==
    outer_loop(<<>>, freq_list_of(prev_frequents), 1)

\* only the one-item antecedents
antecedents_single(items) == combinations(items, 1)

\* the antecedents of one itemset, in the order make_rules builds them
antecedents(items) ==
    concat([i \in 1..(Len(items) - 1) |-> combinations(items, i)])

\* the consequent: the items of the itemset that are not in the combination
consequent(items, combination) ==
    SelectSeq(items, LAMBDA item : item \notin Range(combination))

\* args[len(combination) - 1][" ".join(combination)] raises KeyError
make_rules_raises(top_level, args) ==
    \E e \in 1..Len(top_level) :
        LET combs == antecedents(split(top_level[e][1]))
        IN  \E c \in 1..Len(combs) :
                ~dict_has(args[Len(combs[c])], join(SP, combs[c]))

make_rules(top_level, args) ==
    concat([e \in 1..Len(top_level) |->
        LET itemset == top_level[e][1]
            items == split(itemset)
            combs == antecedents(items)
        IN  [c \in 1..Len(combs) |->
                Rule(combs[c], consequent(items, combs[c]),
                     dict_get(top_level, itemset),
                     dict_get(args[Len(combs[c])], join(SP, combs[c])))]])

(***************************************************************************)
(* The module-level script.                                                *)
(***************************************************************************)
\* singles[item] = 1 in place of singles[item] += 1
RECURSIVE count_items_assign(_, _)
count_items_assign(d, items) ==
    IF items = <<>> THEN d
    ELSE count_items_assign(dict_set(d, Head(items), 1), Tail(items))

\* singles[item] += 1 for every item of every line, a new item starting at 0
RECURSIVE count_items(_, _)
count_items(d, items) ==
    IF items = <<>> THEN d
    ELSE count_items(
             dict_set(d, Head(items),
                      (IF dict_has(d, Head(items)) THEN dict_get(d, Head(items)) ELSE 0) + 1),
             Tail(items))

\* table[key] = 1 in place of table[key] += 1
RECURSIVE count_keys_assign(_, _)
count_keys_assign(d, ks) ==
    IF ks = <<>> THEN d
    ELSE count_keys_assign(
             IF dict_has(d, Head(ks)) THEN dict_set(d, Head(ks), 1) ELSE d,
             Tail(ks))

\* table[key] += 1 for every key of the list that is in the table
RECURSIVE count_keys(_, _)
count_keys(d, ks) ==
    IF ks = <<>> THEN d
    ELSE count_keys(
             IF dict_has(d, Head(ks))
             THEN dict_set(d, Head(ks), dict_get(d, Head(ks)) + 1)
             ELSE d,
             Tail(ks))

\* the keys the counting loop of level k looks up, in order
combination_keys(k) ==
    concat([l \in 1..Len(lines) |->
        LET cs == combinations(lines[l], k)
        IN  [c \in 1..Len(cs) |-> join(SP, cs[c])]])

load_line(line) == sorted(split(strip(line)), "str", FALSE)

\* the keys of a set as a list, ascending or descending
KeyList(K, descending) ==
    LET asc == [p \in 1..Cardinality(K) |->
                   CHOOSE k \in K : Cardinality({j \in K : str_lt(j, k)}) = p - 1]
    IN  IF descending THEN [p \in 1..Len(asc) |-> asc[Len(asc) + 1 - p]] ELSE asc

\* well-formed lines: the items of a set of at most MaxLineLen items, written
\* in descending order and separated by a space
SetLines ==
    {join(SP, KeyList(S, TRUE)) \o NL :
        S \in {T \in SUBSET Items : Cardinality(T) <= MaxLineLen}}

\* raw lines: any tokens, repeated and in any order, after a leading space and
\* separated by a tab and a space; they use one item and one token fewer
RawItems == {ItemNames[i] : i \in 1..(NumItems - 1)}

TokenSeqs == UNION {[1..n -> RawItems] : n \in 0..(MaxLineLen - 1)}

RawLines == {SP \o join(<<9, 32>>, ts) \o NL : ts \in TokenSeqs}

\* the files of at most n lines
Files(lineset, n) == UNION {[1..k -> lineset] : k \in 0..n}

\* the browsing files of the model: up to MaxTrans well-formed lines, or raw
\* lines, one line fewer
BrowsingFiles == Files(SetLines, MaxTrans) \cup Files(RawLines, MaxTrans - 1)

Init ==
    /\ FREQ_THRES \in 1..MaxThres
    /\ browsing \in BrowsingFiles
    /\ lines = <<>>
    /\ singles = <<>>
    /\ pairs = <<>>
    /\ triples = <<>>
    /\ pair_rules = <<>>
    /\ triple_rules = <<>>
    /\ log = <<>>
    /\ pc = "load"
    /\ candidates = <<>>
    /\ result = <<>>
    /\ called = "none"

Load ==
    /\ pc = "load"
    /\ lines' = [i \in 1..Len(browsing) |-> load_line(browsing[i])]
    /\ pc' = "count_singles"
    /\ UNCHANGED <<FREQ_THRES, browsing, singles, pairs, triples, pair_rules,
                   triple_rules, log, candidates, result, called>>

CountSingles ==
    /\ pc = "count_singles"
    /\ singles' = count_items(<<>>, concat(lines))
    /\ pc' = "prune_singles"
    /\ UNCHANGED <<FREQ_THRES, browsing, lines, pairs, triples, pair_rules,
                   triple_rules, log, candidates, result, called>>

PruneSingles ==
    /\ pc = "prune_singles"
    /\ singles' = prune(singles)
    /\ pc' = "make_pairs"
    /\ UNCHANGED <<FREQ_THRES, browsing, lines, pairs, triples, pair_rules,
                   triple_rules, log, candidates, result, called>>

MakePairs ==
    /\ pc = "make_pairs"
    /\ pairs' = make_candidates(singles)
    /\ pc' = "count_pairs"
    /\ UNCHANGED <<FREQ_THRES, browsing, lines, singles, triples, pair_rules,
                   triple_rules, log, candidates, result, called>>

CountPairs ==
    /\ pc = "count_pairs"
    /\ pairs' = count_keys(pairs, combination_keys(2))
    /\ pc' = "prune_pairs"
    /\ UNCHANGED <<FREQ_THRES, browsing, lines, singles, triples, pair_rules,
                   triple_rules, log, candidates, result, called>>

PrunePairs ==
    /\ pc = "prune_pairs"
    /\ pairs' = prune(pairs)
    /\ pc' = "pair_rules"
    /\ UNCHANGED <<FREQ_THRES, browsing, lines, singles, triples, pair_rules,
                   triple_rules, log, candidates, result, called>>

\* a KeyError in make_rules is caught by the except clause: nothing is logged
PairRules ==
    /\ pc = "pair_rules"
    /\ IF make_rules_raises(pairs, <<singles>>)
       THEN /\ pc' = "error"
            /\ UNCHANGED pair_rules
       ELSE /\ pair_rules' = sorted(make_rules(pairs, <<singles>>), "Rule", TRUE)
            /\ pc' = "make_triples"
    /\ UNCHANGED <<FREQ_THRES, browsing, lines, singles, pairs, triples,
                   triple_rules, log, candidates, result, called>>

MakeTriples ==
    /\ pc = "make_triples"
    /\ triples' = make_candidates(pairs)
    /\ pc' = "count_triples"
    /\ UNCHANGED <<FREQ_THRES, browsing, lines, singles, pairs, pair_rules,
                   triple_rules, log, candidates, result, called>>

CountTriples ==
    /\ pc = "count_triples"
    /\ triples' = count_keys(triples, combination_keys(3))
    /\ pc' = "prune_triples"
    /\ UNCHANGED <<FREQ_THRES, browsing, lines, singles, pairs, pair_rules,
                   triple_rules, log, candidates, result, called>>

PruneTriples ==
    /\ pc = "prune_triples"
    /\ triples' = prune(triples)
    /\ pc' = "triple_rules"
    /\ UNCHANGED <<FREQ_THRES, browsing, lines, singles, pairs, pair_rules,
                   triple_rules, log, candidates, result, called>>

TripleRules ==
    /\ pc = "triple_rules"
    /\ IF make_rules_raises(triples, <<singles, pairs>>)
       THEN /\ pc' = "error"
            /\ UNCHANGED triple_rules
       ELSE /\ triple_rules' =
                   sorted(make_rules(triples, <<singles, pairs>>), "Rule", TRUE)
            /\ pc' = "write_log"
    /\ UNCHANGED <<FREQ_THRES, browsing, lines, singles, pairs, triples,
                   pair_rules, log, candidates, result, called>>

\* the lines written for one rule list
rule_lines(rules) == [i \in 1..Len(rules) |-> Rule_str(rules[i]) \o NL]

\* the lines written for one frequent table: itemset + ": " + count
itemset_lines(table) ==
    LET ks == sorted(dict_keys(table), "str", FALSE)
    IN  [i \in 1..Len(ks) |->
            ks[i] \o <<58, 32>> \o str_int(dict_get(table, ks[i])) \o NL]

Found == <<70, 111, 117, 110, 100, 32>>                                       \* "Found "

\* everything the script appends to the logging file, one entry per write
log_text ==
    << NL \o Found \o str_int(Len(pair_rules))
          \o <<32, 112, 97, 105, 114, 32, 114, 117, 108, 101, 115, 32, 102, 114, 111, 109, 32>>
                                                                \* " pair rules from "
          \o str_int(Len(pairs))
          \o <<32, 102, 114, 101, 113, 117, 101, 110, 116, 32, 112, 97, 105, 114, 115, 58, 10>> >>
                                                                \* " frequent pairs:\n"
    \o rule_lines(pair_rules)
    \o << NL \o Found \o str_int(Len(triple_rules))
          \o <<32, 116, 114, 105, 112, 108, 101, 32, 114, 117, 108, 101, 115, 32, 102, 114, 111, 109, 32>>
                                                                \* " triple rules from "
          \o str_int(Len(triples))
          \o <<32, 102, 114, 101, 113, 117, 101, 110, 116, 32, 116, 114, 105, 112, 108, 101, 115, 58, 10>> >>
                                                                \* " frequent triples:\n"
    \o rule_lines(triple_rules)
    \o << Found \o str_int(Len(singles))
          \o <<32, 102, 114, 101, 113, 117, 101, 110, 116, 32, 115, 105, 110, 103, 108, 101, 115, 58, 10>> >>
                                                                \* " frequent singles:\n"
    \o itemset_lines(singles)
    \o << Found \o str_int(Len(pairs))
          \o <<32, 102, 114, 101, 113, 117, 101, 110, 116, 32, 112, 97, 105, 114, 115, 58, 10>> >>
    \o itemset_lines(pairs)
    \o << Found \o str_int(Len(triples))
          \o <<32, 102, 114, 101, 113, 117, 101, 110, 116, 32, 116, 114, 105, 112, 108, 101, 115, 58, 10>> >>
    \o itemset_lines(triples)

WriteLog ==
    /\ pc = "write_log"
    /\ log' = log_text
    /\ pc' = "done"
    /\ UNCHANGED <<FREQ_THRES, browsing, lines, singles, pairs, triples,
                   pair_rules, triple_rules, candidates, result, called>>

Next ==
    \/ Load
    \/ CountSingles
    \/ PruneSingles
    \/ MakePairs
    \/ CountPairs
    \/ PrunePairs
    \/ PairRules
    \/ MakeTriples
    \/ CountTriples
    \/ PruneTriples
    \/ TripleRules
    \/ WriteLog

Spec == Init /\ [][Next]_vars

(***************************************************************************)
(* prune and make_candidates called directly on a table.                   *)
(***************************************************************************)
\* the canonical keys of the k-item sets over Items
ItemsetKeys(k) ==
    {join(SP, sorted(ts, "str", FALSE)) :
        ts \in {f \in [1..k -> Items] : \A i, j \in 1..k : i # j => f[i] # f[j]}}

\* the tables over a list of keys: any of the keys, in the order of the list,
\* each with a count up to MaxCount (-1 leaves the key out)
TablesOver(keys) ==
    {SelectSeq([i \in 1..Len(keys) |-> <<keys[i], f[i]>>], LAMBDA e : e[2] >= 0) :
        f \in [1..Len(keys) -> -1..MaxCount]}

\* the tables of k-itemsets, keys inserted in ascending or in descending order
Tables(k) ==
    TablesOver(KeyList(ItemsetKeys(k), FALSE))
        \cup TablesOver(KeyList(ItemsetKeys(k), TRUE))

InitCall ==
    /\ FREQ_THRES \in 1..MaxThres
    /\ candidates \in Tables(1) \cup Tables(2)
    /\ result = <<>>
    /\ called = "none"
    /\ browsing = <<>>
    /\ lines = <<>>
    /\ singles = <<>>
    /\ pairs = <<>>
    /\ triples = <<>>
    /\ pair_rules = <<>>
    /\ triple_rules = <<>>
    /\ log = <<>>
    /\ pc = "call"

CallPrune ==
    /\ pc = "call"
    /\ called = "none"
    /\ result' = prune(candidates)
    /\ called' = "prune"
    /\ UNCHANGED <<FREQ_THRES, browsing, lines, singles, pairs, triples,
                   pair_rules, triple_rules, log, pc, candidates>>

CallMakeCandidates ==
    /\ pc = "call"
    /\ called = "none"
    /\ result' = make_candidates(candidates)
    /\ called' = "make_candidates"
    /\ UNCHANGED <<FREQ_THRES, browsing, lines, singles, pairs, triples,
                   pair_rules, triple_rules, log, pc, candidates>>

NextCall == CallPrune \/ CallMakeCandidates

SpecCall == InitCall /\ [][NextCall]_vars

(***************************************************************************)
(* Vocabulary of the properties.                                           *)
(***************************************************************************)
\* the items of a set as a list in ascending string order
SeqOf(S) == KeyList(S, FALSE)

\* the canonical key of an itemset: its items sorted and joined by a space
CanonKey(S) == join(SP, SeqOf(S))

SubsetsOfSize(S, k) == {A \in SUBSET S : Cardinality(A) = k}

\* the number of transactions that contain every item of S
Support(S) == Cardinality({i \in 1..Len(lines) : S \subseteq Range(lines[i])})

\* no transaction repeats an item
DupFree == \A i \in 1..Len(lines) : Cardinality(Range(lines[i])) = Len(lines[i])

IsSorted(line) == \A i \in 1..(Len(line) - 1) : ~str_lt(line[i + 1], line[i])

UniqueKeys(d) == Cardinality(KeySet(d)) = Len(d)

\* the table holds exactly the frequent k-itemsets, each with its support
ExactlyFrequent(table, k) ==
    /\ UniqueKeys(table)
    /\ KeySet(table) =
           {CanonKey(S) : S \in {T \in SubsetsOfSize(Items, k) : Support(T) >= FREQ_THRES}}
    /\ \A S \in SubsetsOfSize(Items, k) :
           Support(S) >= FREQ_THRES => dict_get(table, CanonKey(S)) = Support(S)

\* the script is past the last prune
MiningDone == pc \in {"triple_rules", "write_log", "done", "error"}

\* C1: after the driver has counted and pruned all three levels over sorted,
\* duplicate-free transactions, each level's table holds exactly the itemsets
\* of that size contained in at least FREQ_THRES transactions, with that number
\* of transactions as the count.
C1_FrequentTablesExact ==
    (MiningDone /\ DupFree) =>
        /\ ExactlyFrequent(singles, 1)
        /\ ExactlyFrequent(pairs, 2)
        /\ ExactlyFrequent(triples, 3)

C1_Witness ==
    /\ pc = "done"
    /\ DupFree
    /\ FREQ_THRES = 2
    /\ Len(triples) = 1
    /\ Len(pairs) = 3

\* the rule lists the driver reports, once they exist
PairRulesMade ==
    pc \in {"make_triples", "count_triples", "prune_triples", "triple_rules",
            "write_log", "done"}

TripleRulesMade == pc \in {"write_log", "done"}

ReportedLists ==
    (IF PairRulesMade THEN {pair_rules} ELSE {})
        \cup (IF TripleRulesMade THEN {triple_rules} ELSE {})

\* confidence of r compared with confidence of q as exact ratios
ConfGreater(r, q) == r.all_freq * q.left_freq > q.all_freq * r.left_freq

ConfEqual(r, q) == r.all_freq * q.left_freq = q.all_freq * r.left_freq

Antecedent(r) == join(SP, r.left)

\* C2 as stated: rules are in descending order of confidence, and of two rules
\* of equal confidence the one with the greater antecedent string comes first.
C2_GreaterStringFirst ==
    \A rules \in ReportedLists :
        \A i, j \in 1..Len(rules) :
            i < j =>
                \/ ConfGreater(rules[i], rules[j])
                \/ /\ ConfEqual(rules[i], rules[j])
                   /\ ~str_lt(Antecedent(rules[i]), Antecedent(rules[j]))

\* C2 amended: rules are in descending order of confidence, and of two rules
\* of equal confidence the one with the SMALLER antecedent string comes first
\* (reverse=True turns the order of Rule._cmp around, ties included).
C2_SmallerStringFirst ==
    \A rules \in ReportedLists :
        \A i, j \in 1..Len(rules) :
            i < j =>
                \/ ConfGreater(rules[i], rules[j])
                \/ /\ ConfEqual(rules[i], rules[j])
                   /\ ~str_lt(Antecedent(rules[j]), Antecedent(rules[i]))

C2_Witness ==
    /\ TripleRulesMade
    /\ \E i, j \in 1..Len(pair_rules) :
           /\ i < j
           /\ ConfEqual(pair_rules[i], pair_rules[j])
           /\ str_lt(Antecedent(pair_rules[i]), Antecedent(pair_rules[j]))
    /\ \E i, j \in 1..Len(triple_rules) :
           /\ i < j
           /\ ConfGreater(triple_rules[i], triple_rules[j])
    /\ \E i, j \in 1..Len(triple_rules) :
           /\ i < j
           /\ ConfEqual(triple_rules[i], triple_rules[j])
           /\ Len(triple_rules[i].left) = 2
           /\ str_lt(Antecedent(triple_rules[i]), Antecedent(triple_rules[j]))

\* every k-item subset of S is a key of the table
AllSubsetsIn(S, k, table) ==
    \A A \in SubsetsOfSize(S, k) : CanonKey(A) \in KeySet(table)

\* C3: make_candidates has no false negatives: for k in {1, 2}, every set of
\* k+1 distinct items all of whose k-item subsets are keys of the table has its
\* canonical key among the keys make_candidates returns.
C3_NoFalseNegatives ==
    called = "make_candidates" =>
        \A k \in {1, 2} :
            \A S \in SubsetsOfSize(Items, k + 1) :
                AllSubsetsIn(S, k, candidates) => CanonKey(S) \in KeySet(result)

\* a table of pairs given in descending key order that holds all pairs of a triple
C3_Witness ==
    /\ called = "make_candidates"
    /\ Len(candidates) >= 3
    /\ str_lt(candidates[2][1], candidates[1][1])
    /\ \E S \in SubsetsOfSize(Items, 3) :
           /\ AllSubsetsIn(S, 2, candidates)
           /\ CanonKey(S) \in KeySet(result)

\* the items of a key are n distinct items
DistinctItems(key, n) ==
    /\ Len(split(key)) = n
    /\ Cardinality(Range(split(key))) = n

\* the itemset size of the table make_candidates was called on
InputSize == IF candidates = <<>> THEN 0 ELSE Len(split(candidates[1][1]))

\* C4: make_candidates returns only itemsets of exactly k+1 distinct items (no
\* candidate repeats an item), no key twice, every count 0.
C4_CandidatesAreItemsets ==
    called = "make_candidates" =>
        /\ UniqueKeys(result)
        /\ \A i \in 1..Len(result) :
               /\ DistinctItems(result[i][1], InputSize + 1)
               /\ result[i][2] = 0

\* C8: prune returns exactly the entries of its input whose count is at least
\* the threshold, counts unchanged, and leaves its input as it was; an empty
\* input gives an empty output.
C8_PruneExact ==
    [][(called = "none" /\ called' = "prune") =>
          /\ candidates' = candidates
          /\ UniqueKeys(result')
          /\ Range(result') = {e \in Range(candidates) : e[2] >= FREQ_THRES}
          /\ (candidates = <<>> => result' = <<>>)]_vars

C8_Witness ==
    /\ called = "prune"
    /\ result # <<>>
    /\ \E e \in Range(candidates) : e[2] = FREQ_THRES
    /\ \E e \in Range(candidates) : e[2] > FREQ_THRES
    /\ \E e \in Range(candidates) : e[2] < FREQ_THRES

\* the set of items a key names, when they are n distinct items
ItemsOfKey(key) == Range(split(key))

\* for every itemset of n distinct items in the level table: one rule per
\* nonempty proper subset A (antecedent A, consequent the rest, the itemset's
\* count and A's count in the earlier table of A's size) and no other rule
RulesComplete(rules, level, n, earlier) ==
    \A e \in 1..Len(level) :
        DistinctItems(level[e][1], n) =>
            LET S == ItemsOfKey(level[e][1])
                forS == {i \in 1..Len(rules) :
                            Range(rules[i].left) \cup Range(rules[i].right) = S}
            IN  /\ Cardinality(forS) = 2^n - 2
                /\ \A A \in (SUBSET S) \ {{}, S} :
                       \E i \in forS :
                           /\ rules[i].left = SeqOf(A)
                           /\ rules[i].right = SeqOf(S \ A)
                           /\ rules[i].all_freq = level[e][2]
                           /\ rules[i].left_freq =
                                  dict_get(earlier[Cardinality(A)], CanonKey(A))
                           /\ \A j \in forS :
                                  rules[j].left = rules[i].left => j = i

\* C5: make_rules builds, for every itemset S of n distinct items of the level
\* table (n = 2, 3), exactly one rule per nonempty proper subset A of S, with
\* antecedent A, consequent S \ A, all_freq the count of S and left_freq the
\* count of A in the earlier table of size |A|; 2^n - 2 rules per itemset.
C5_OneRulePerProperSubset ==
    /\ PairRulesMade => RulesComplete(pair_rules, pairs, 2, <<singles>>)
    /\ TripleRulesMade => RulesComplete(triple_rules, triples, 3, <<singles, pairs>>)

C5_Witness ==
    /\ pc = "done"
    /\ \E e \in 1..Len(triples) : DistinctItems(triples[e][1], 3)
    /\ \E e \in 1..Len(pairs) : DistinctItems(pairs[e][1], 2)
    /\ Len(triple_rules) >= 6

AllRules ==
    (IF PairRulesMade THEN Range(pair_rules) ELSE {})
        \cup (IF TripleRulesMade THEN Range(triple_rules) ELSE {})

\* C6: over duplicate-free transactions every rule has left_freq > 0 and
\* 0 < all_freq <= left_freq, so its confidence lies in (0, 1].
C6_ConfidenceBounds ==
    DupFree =>
        \A r \in AllRules :
            /\ r.left_freq > 0
            /\ 0 < r.all_freq
            /\ r.all_freq <= r.left_freq

C6_Witness ==
    /\ pc = "done"
    /\ DupFree
    /\ \E r \in Range(pair_rules) : r.all_freq < r.left_freq
    /\ \E r \in Range(triple_rules) : r.all_freq < r.left_freq
    /\ \E r \in Range(triple_rules) : r.all_freq = r.left_freq

\* C7: over duplicate-free transactions the antecedent lookup never misses:
\* when make_rules runs on the pairs every item of a frequent pair is a key of
\* singles, and when it runs on the triples every item and every pair of a
\* frequent triple is a key of singles and of pairs; the script never ends
\* in the except clause.
C7_LookupNeverMisses ==
    DupFree =>
        /\ pc # "error"
        /\ pc = "pair_rules" =>
               \A e \in 1..Len(pairs) :
                   \A x \in ItemsOfKey(pairs[e][1]) : x \in KeySet(singles)
        /\ pc = "triple_rules" =>
               \A e \in 1..Len(triples) :
                   /\ \A x \in ItemsOfKey(triples[e][1]) : x \in KeySet(singles)
                   /\ \A A \in SubsetsOfSize(ItemsOfKey(triples[e][1]), 2) :
                          CanonKey(A) \in KeySet(pairs)

C7_Witness ==
    /\ pc = "triple_rules"
    /\ DupFree
    /\ triples # <<>>
    /\ FREQ_THRES = 2

\* the text the claim describes for one rule, with the given item separator
RuleText(sep, r) ==
    <<123>> \o join(sep, r.left) \o <<125, 32, 45, 62, 32, 123>>
    \o join(sep, r.right)
    \o <<125, 32, 45, 32, 102, 114, 101, 113, 117, 101, 110, 99, 121, 58, 32>>
    \o str_int(r.all_freq)
    \o <<44, 32, 99, 111, 110, 102, 105, 100, 101, 110, 99, 101, 32, 61, 32>>
    \o str_float(<<r.all_freq, r.left_freq>>)

\* the log entries of the pair rules and of the triple rules
PairRuleEntry(i) == log[1 + i]

TripleRuleEntry(i) == log[2 + Len(pair_rules) + i]

LoggedAs(sep) ==
    pc = "done" =>
        /\ \A i \in 1..Len(pair_rules) :
               PairRuleEntry(i) = RuleText(sep, pair_rules[i]) \o NL
        /\ \A i \in 1..Len(triple_rules) :
               TripleRuleEntry(i) = RuleText(sep, triple_rules[i]) \o NL

\* C9 as stated: a rule is written as "{" antecedent items "} -> {" consequent
\* items "} - frequency: " all_freq ", confidence = " confidence, the items
\* inside the braces separated by a single space.
C9_ItemsSpaceSeparated == LoggedAs(SP)

\* C9 amended: the same text, but the items inside the braces are separated
\* by a comma followed by a space.
C9_ItemsCommaSeparated == LoggedAs(CommaSP)

C9_Witness ==
    /\ pc = "done"
    /\ \E i \in 1..Len(triple_rules) :
           /\ Len(triple_rules[i].left) = 2
           /\ TripleRuleEntry(i) = RuleText(CommaSP, triple_rules[i]) \o NL
    /\ \E i \in 1..Len(triple_rules) : Len(triple_rules[i].right) = 2

\* C10: every transaction the driver counts over is sorted and repeats no
\* item, so one transaction adds at most 1 to any count.
C10_LinesSortedAndDeduplicated ==
    pc # "load" =>
        /\ DupFree
        /\ \A i \in 1..Len(lines) : IsSorted(lines[i])
        /\ \A e \in 1..Len(singles) : singles[e][2] <= Len(lines)

====
